---- MODULE Spec2Model ----
(***************************************************************************)
(* Hypothesis-testing notebook (Z test, Student's t test) modelled as the  *)
(* namespace of a notebook kernel: the variables are the names the cells   *)
(* assign, one action per cell execution.  Cells may be run in any order   *)
(* and any number of times; a cell that raises keeps the assignments made  *)
(* before the failing line.  Floating-point values are modelled by exact   *)
(* rationals and square roots of rationals, plus IEEE nan and +-inf.       *)
(***************************************************************************)
EXTENDS Integers, Sequences, FiniteSets, TLC

VARIABLES imported, x0, mu, sigma, Z, w, samples, sample_mean, n, T,
          pvalue, dist, decision, last, err,
          cf, dy,
          sig, sig_fft, power, sample_freq, peak_freq, high_freq_fft, filtered_sig,
          algebra, out

\* the names of the hypothesis-testing cells
statVars == <<imported, x0, mu, sigma, Z, w, samples, sample_mean, n, T,
              pvalue, dist, decision>>

\* the last call of conditional_function and of derivative
funVars == <<cf, dy>>

\* the names of the Fourier-transform cells
fftVars == <<sig, sig_fft, power, sample_freq, peak_freq, high_freq_fft, filtered_sig>>

\* the namespace of the linear-algebra notebook's kernel, a record with one
\* field per name its cells assign, and what its last cell printed
algVars == <<algebra, out>>

vars == <<statVars, last, err, funVars, fftVars, algVars>>

----------------------------------------------------------------------------
(* Bounds of the model *)

\* longest generated sample
MaxLen == 2
\* the CDF tables are step functions on the levels -LevelMax..LevelMax
LevelMax == 2
\* CDF values are multiples of 1/(2*Half)
Half == 2

----------------------------------------------------------------------------
(* Inputs: the literals of the cells, generalised to small sets that       *)
(* contain the notebook's own values.                                      *)

X0Set == {1045, 1060, 1075}
MuSet == {1060}
SigmaSet == {-3, 0, 3}
SampleValues == {1050, 1060, 1070}
NotebookSamples == <<1035, 1050, 1020, 1055, 1046>>

RECURSIVE SeqsUpTo(_)
SeqsUpTo(k) ==
    IF k = 0 THEN {<<>>}
    ELSE LET S == SeqsUpTo(k - 1)
         IN  S \cup {Append(s, v) : s \in {t \in S : Len(t) = k - 1}, v \in SampleValues}

SampleSet == SeqsUpTo(MaxLen) \cup {NotebookSamples}

----------------------------------------------------------------------------
(* Numbers *)

Undef == [k |-> "undef"]
NaN == [k |-> "nan"]
Inf(s) == [k |-> "inf", s |-> s]

Abs(i) == IF i < 0 THEN -i ELSE i
Sign(i) == IF i < 0 THEN -1 ELSE IF i = 0 THEN 0 ELSE 1

RECURSIVE Gcd(_, _)
Gcd(a, b) == IF b = 0 THEN a ELSE Gcd(b, a % b)

\* the rational num/den in lowest terms, den > 0
Rat(num, den) ==
    LET g == Gcd(Abs(num), Abs(den))
        s == Sign(den)
    IN  [k |-> "rat", n |-> (s * num) \div g, d |-> (s * den) \div g]

\* s * sqrt(num/den), num/den >= 0 in lowest terms
Surd(s, num, den) ==
    LET r == Rat(num, den)
    IN  [k |-> "surd", s |-> IF r.n = 0 THEN 0 ELSE s, n |-> r.n, d |-> r.d]

IsNum(a) == a.k \in {"rat", "surd"}
SignOf(a) == IF a.k = "rat" THEN Sign(a.n) ELSE a.s

RAdd(a, b) ==
    IF a.k = "nan" \/ b.k = "nan" THEN NaN
    ELSE LET g == Gcd(a.d, b.d)
         IN  Rat(a.n * (b.d \div g) + b.n * (a.d \div g), (a.d \div g) * b.d)

RSub(a, b) ==
    IF a.k = "nan" \/ b.k = "nan" THEN NaN
    ELSE LET g == Gcd(a.d, b.d)
         IN  Rat(a.n * (b.d \div g) - b.n * (a.d \div g), (a.d \div g) * b.d)

RAbs(a) == IF a.k = "nan" THEN NaN ELSE Rat(Abs(a.n), a.d)

RLt(a, b) ==
    IF a.k = "nan" \/ b.k = "nan" THEN FALSE
    ELSE LET g == Gcd(a.d, b.d)
         IN  a.n * (b.d \div g) < b.n * (a.d \div g)

Neg(a) ==
    CASE a.k = "rat" -> Rat(-a.n, a.d)
      [] a.k = "surd" -> Surd(-a.s, a.n, a.d)
      [] a.k = "inf" -> Inf(-a.s)
      [] OTHER -> a

\* a rational seen as a signed square root
ToSurd(a) ==
    IF a.k = "rat" THEN Surd(Sign(a.n), a.n * a.n, a.d * a.d) ELSE a

----------------------------------------------------------------------------
(* numpy / scipy calls used by the cells *)

RECURSIVE SeqSum(_)
SeqSum(s) == IF s = <<>> THEN 0 ELSE Head(s) + SeqSum(Tail(s))

\* np.mean: the empty array gives nan
NpMean(s) == IF Len(s) = 0 THEN NaN ELSE Rat(SeqSum(s), Len(s))

\* sum of the squared deviations from the mean, times Len(s)^2
SumSqDev(s) ==
    LET S == SeqSum(s)
        c == Len(s)
    IN  SeqSum([i \in 1..c |-> (c * s[i] - S) * (c * s[i] - S)])

\* np.var(s, ddof): sum of squared deviations over (n - ddof); 0/0 is nan
NpVar(s, ddof) ==
    LET c == Len(s)
    IN  IF c = 0 \/ c - ddof <= 0 THEN NaN
        ELSE Rat(SumSqDev(s), c * c * (c - ddof))

\* np.sqrt of a non-negative rational
NpSqrt(a) == IF a.k = "nan" THEN NaN ELSE Surd(Sign(a.n), a.n, a.d)

\* float64 division of signed square roots: x/0 is +-inf, 0/0 is nan
NpDiv(a, b) ==
    IF a.k = "nan" \/ b.k = "nan" THEN NaN
    ELSE IF b.s = 0 THEN (IF a.s = 0 THEN NaN ELSE Inf(a.s))
    ELSE Surd(a.s * b.s, a.n * b.d, a.d * b.n)

\* the step of the CDF table a finite value falls on: sign(x)*floor(|x|),
\* saturated at LevelMax
Level(a) ==
    LET mag == IF a.k = "rat"
               THEN {j \in 0..LevelMax : j * a.d <= Abs(a.n)}
               ELSE {j \in 0..LevelMax : j * j * a.d <= a.n}
        top == CHOOSE j \in mag : \A i \in mag : i <= j
    IN  SignOf(a) * top

\* the cumulative distribution functions the library may implement:
\* non-decreasing, values in [0,1], symmetric F(-z) = 1 - F(z)
CdfTables ==
    LET Upper == {h \in [1..LevelMax -> Half..(2 * Half)] :
                     \A i \in 1..(LevelMax - 1) : h[i] <= h[i + 1]}
    IN  {[i \in (-LevelMax)..LevelMax |->
             IF i = 0 THEN Half
             ELSE IF i > 0 THEN h[i] ELSE 2 * Half - h[-i]] : h \in Upper}

Cdf(F, a) ==
    CASE a.k = "nan" -> NaN
      [] a.k = "inf" -> IF a.s > 0 THEN Rat(1, 1) ELSE Rat(0, 1)
      [] OTHER -> Rat(F[Level(a)], 2 * Half)

\* stats.norm.cdf(x)
NormCdf(F, a) == Cdf(F, a)

\* stats.t.cdf(x, df): nan for a non-positive number of degrees of freedom
TCdf(F, a, df) == IF df <= 0 THEN NaN ELSE Cdf(F, a)

----------------------------------------------------------------------------
(* The expressions of the cells *)

\* the deviation divided by the variance sigma^2
ZScore_Variance(a, m, s) ==
    LET num == RAbs(RSub(a, m))
    IN  Rat(num.n * s.d * s.d, num.d * s.n * s.n)

\* Z = abs(x0 - mu) / sigma   (sigma # 0)
ZScore(a, m, s) ==
    LET num == RAbs(RSub(a, m))
    IN  Rat(num.n * s.d, num.d * s.n)

\* the right tail alone
PValueZ_OneTail(F, z) == RSub(Rat(1, 1), NormCdf(F, z))

\* cdf(-Z) + (1. - cdf(Z)), from the values cNeg = cdf(-Z) and cPos = cdf(Z)
PValueZExpr(cNeg, cPos) == RAdd(cNeg, RSub(Rat(1, 1), cPos))

\* pvalue = stats.norm.cdf(-Z) + (1. - stats.norm.cdf(Z))
PValueZ(F, z) == PValueZExpr(NormCdf(F, Neg(z)), NormCdf(F, z))

\* the population standard deviation (ddof left at its default 0)
SampleStd_Ddof0(s) == NpSqrt(NpVar(s, 0))

\* sigma = np.sqrt(np.var(samples, ddof=1))
SampleStd(s) == NpSqrt(NpVar(s, 1))

\* T = (sample_mean - mu) / (sigma / np.sqrt(n))
TScore(mean, m, sd, cnt) ==
    NpDiv(ToSurd(RSub(mean, m)), NpDiv(sd, NpSqrt(Rat(cnt, 1))))

\* the degrees of freedom passed to stats.t.cdf
TDof(cnt) == cnt - 1

\* cdf(T) + (1. - cdf(-T)), from the values cPos = cdf(T) and cNeg = cdf(-T)
PValueTExpr(cPos, cNeg) == RAdd(cPos, RSub(Rat(1, 1), cNeg))

\* pvalue = stats.t.cdf(T, n - 1) + (1. - stats.t.cdf(-T, n - 1))
PValueT(F, t, df) == PValueTExpr(TCdf(F, t, df), TCdf(F, Neg(t), df))

----------------------------------------------------------------------------
(* The cells.  The conclusion drawn in a markdown cell (decision) is about  *)
(* the p-value just printed: executing a code cell discards it.            *)

\* significance levels a reader may choose, as <<numerator, denominator>>
AlphaSet == {Rat(0, 1), Rat(1, 20), Rat(3, 4), Rat(3, 2)}

Init ==
    /\ imported = FALSE
    /\ x0 = Undef /\ mu = Undef /\ sigma = Undef /\ Z = Undef /\ w = Undef
    /\ samples = Undef /\ sample_mean = Undef /\ n = Undef /\ T = Undef
    /\ pvalue = Undef /\ dist = Undef /\ decision = Undef
    /\ last = "none" /\ err = "none"
    /\ cf = Undef /\ dy = Undef
    /\ sig = Undef /\ sig_fft = Undef /\ power = Undef /\ sample_freq = Undef
    /\ peak_freq = Undef /\ high_freq_fft = Undef /\ filtered_sig = Undef
    /\ algebra = Undef /\ out = Undef

\* first code cell: imports, x0, mu, sigma, Z, w
ZStatCell ==
    \E a \in X0Set, m \in MuSet, s \in SigmaSet :
        /\ imported' = TRUE
        /\ x0' = Rat(a, 1) /\ mu' = Rat(m, 1) /\ sigma' = Rat(s, 1)
        /\ last' = "z_stat"
        /\ IF s = 0
           THEN /\ err' = "ZeroDivisionError"
                /\ UNCHANGED <<Z, w>>
           ELSE /\ err' = "none"
                /\ Z' = ZScore(x0', mu', sigma')
                /\ w' = RSub(mu', x0')
        /\ decision' = Undef
        /\ UNCHANGED <<samples, sample_mean, n, T, pvalue, dist, funVars, fftVars, algVars>>

\* second code cell: the Z-test p-value
ZPvalueCell ==
    /\ last' = "z_pvalue"
    /\ IF Z = Undef
       THEN /\ err' = "NameError"
            /\ UNCHANGED <<pvalue, dist>>
       ELSE \E F \in CdfTables :
            /\ err' = "none"
            /\ dist' = [name |-> "norm", df |-> 0, F |-> F]
            /\ pvalue' = PValueZ(F, Z)
    /\ decision' = Undef
    /\ UNCHANGED <<imported, x0, mu, sigma, Z, w, samples, sample_mean, n, T, funVars, fftVars, algVars>>

\* markdown after the Z-test p-value: reject when the p-value is smaller than alpha
ZConclusion ==
    /\ last = "z_pvalue" /\ err = "none"
    /\ \E alpha \in AlphaSet :
        decision' = [test |-> "Z", alpha |-> alpha, reject |-> RLt(pvalue, alpha)]
    /\ last' = "z_concl"
    /\ UNCHANGED <<imported, x0, mu, sigma, Z, w, samples, sample_mean, n, T,
                   pvalue, dist, err, funVars, fftVars, algVars>>

\* third code cell: samples, sigma, sample_mean, mu, n, w, T
TStatCell ==
    /\ last' = "t_stat"
    /\ IF ~imported
       THEN /\ err' = "NameError"
            /\ UNCHANGED <<samples, sigma, sample_mean, mu, n, w, T>>
       ELSE \E s \in SampleSet, m \in MuSet :
            /\ err' = "none"
            /\ samples' = s
            /\ sigma' = SampleStd(s)
            /\ sample_mean' = NpMean(s)
            /\ mu' = Rat(m, 1)
            /\ n' = Len(s)
            /\ w' = RSub(mu', sample_mean')
            /\ T' = TScore(sample_mean', mu', sigma', n')
    /\ decision' = Undef
    /\ UNCHANGED <<imported, x0, Z, pvalue, dist, funVars, fftVars, algVars>>

\* fourth code cell: the t-test p-value
TPvalueCell ==
    /\ last' = "t_pvalue"
    /\ IF T = Undef
       THEN /\ err' = "NameError"
            /\ UNCHANGED <<pvalue, dist>>
       ELSE \E F \in CdfTables :
            /\ err' = "none"
            /\ dist' = [name |-> "t", df |-> TDof(n), F |-> F]
            /\ pvalue' = PValueT(F, T, TDof(n))
    /\ decision' = Undef
    /\ UNCHANGED <<imported, x0, mu, sigma, Z, w, samples, sample_mean, n, T, funVars, fftVars, algVars>>

\* the threshold is alpha itself
TThreshold_Alpha(alpha) == alpha

\* the threshold the t-test conclusion compares the p-value with
TThreshold(alpha) == Rat(alpha.n, 2 * alpha.d)

\* markdown after the t-test p-value: "not < alpha/2, we accept"
TConclusion ==
    /\ last = "t_pvalue" /\ err = "none"
    /\ \E alpha \in AlphaSet :
        decision' = [test |-> "t", alpha |-> alpha,
                     reject |-> RLt(pvalue, TThreshold(alpha))]
    /\ last' = "t_concl"
    /\ UNCHANGED <<imported, x0, mu, sigma, Z, w, samples, sample_mean, n, T,
                   pvalue, dist, err, funVars, fftVars, algVars>>

Next ==
    \/ ZStatCell
    \/ ZPvalueCell
    \/ ZConclusion
    \/ TStatCell
    \/ TPvalueCell
    \/ TConclusion

Spec == Init /\ [][Next]_vars

----------------------------------------------------------------------------
(* Properties *)

Zero == Rat(0, 1)
One == Rat(1, 1)
Done(cell) == last = cell /\ err = "none"

AbsVal(a) ==
    CASE a.k = "rat" -> RAbs(a)
      [] a.k = "surd" -> Surd(Abs(a.s), a.n, a.d)
      [] a.k = "inf" -> Inf(1)
      [] OTHER -> a

\* 2 * (1 - F(|a|))
TwoSided(F, a) ==
    LET c == Cdf(F, AbsVal(a)) IN RSub(Rat(2, 1), RAdd(c, c))

\* C1: for every alpha in (0,1), in the Z-test and in the t-test conclusion,
\* the decision is "reject" if and only if p-value < alpha.
C1_RejectIffBelowAlpha ==
    (/\ last \in {"z_concl", "t_concl"}
     /\ RLt(Zero, decision.alpha) /\ RLt(decision.alpha, One))
    => (decision.reject <=> RLt(pvalue, decision.alpha))

\* C2: the p-value of every completed evaluation on valid input (Z of a
\* positive sigma, a sample of at least two values) lies in [0,1].
C2_PValueInUnitInterval ==
    (/\ \/ Done("z_pvalue") /\ SignOf(Z) >= 0
        \/ Done("t_pvalue") /\ n >= 2
     /\ pvalue.k = "rat")
    => (~RLt(pvalue, Zero) /\ ~RLt(One, pvalue))

\* C3: the t-test p-value equals 2*(1 - F(|T|)), F the CDF with n-1 degrees
\* of freedom, for T of either sign.
C3_TPValueTwoSided ==
    (Done("t_pvalue") /\ n >= 2 /\ T.k # "nan")
    => pvalue = TwoSided(dist.F, T)

\* C4: the Z statistic is the signed quotient (x0 - mu)/sigma.
C4_ZSigned ==
    (Done("z_stat") /\ RLt(Zero, sigma))
    => LET q == RSub(x0, mu) IN Z = Rat(q.n * sigma.d, q.d * sigma.n)

\* C5: the Z-test p-value equals 2*(1 - Phi(|Z|)) for every Z.
C5_ZPValueTwoSided ==
    Done("z_pvalue") => pvalue = TwoSided(dist.F, Z)

\* C6: T = (sample_mean - mu)/(s/sqrt(n)) with s^2 the squared deviations
\* from the mean over n-1, and the p-value uses n-1 degrees of freedom.
\* In integers, with S the sum of the sample, dev = S - n*mu and
\* SS = sum (n*x_i - S)^2:  sign(T) = sign(dev), T^2 * SS = dev^2 * n * (n-1).
C6_TStatistic ==
    /\ (Done("t_stat") /\ n >= 2) =>
          LET S == SeqSum(samples)
              dev == S - n * mu.n
              SS == SeqSum([i \in 1..n |-> (n * samples[i] - S) * (n * samples[i] - S)])
          IN  SS > 0 => /\ T.k = "surd"
                        /\ T.s = Sign(dev)
                        /\ T.n * SS = T.d * dev * dev * n * (n - 1)
    /\ Done("t_pvalue") => (dist.name = "t" /\ dist.df = Len(samples) - 1)

C6_Witness ==
    /\ Done("t_pvalue") /\ samples = NotebookSamples
    /\ T.k = "surd" /\ T.s = -1 /\ dist.df = 4

\* C7: a Z-test evaluation with sigma <= 0 ends in an error outcome.
C7_NonPositiveSigmaFails ==
    (last = "z_stat" /\ ~RLt(Zero, sigma)) => err # "none"

\* C8: a t-test evaluation on a sample of size 0 or 1 ends in an error outcome.
C8_SmallSampleFails ==
    (last = "t_stat" /\ T # Undef /\ Len(samples) < 2) => err # "none"

\* C9: no decision is evaluated for an alpha outside the open interval (0,1).
C9_AlphaOutsideRejected ==
    last \in {"z_concl", "t_concl"}
    => (RLt(Zero, decision.alpha) /\ RLt(decision.alpha, One))

\* C10: when sample_mean equals mu the statistic is 0 (Z; T for a sample of
\* non-zero variance), and a statistic of 0 gives the two-sided p-value 1.
C10_ZeroStatistic ==
    /\ (Done("z_stat") /\ x0 = mu) => Z = Zero
    /\ (Done("z_pvalue") /\ Z = Zero) => pvalue = One
    /\ (Done("t_stat") /\ sample_mean = mu /\ sigma.k = "surd" /\ sigma.s # 0)
          => T = Surd(0, 0, 1)
    /\ (Done("t_pvalue") /\ T = Surd(0, 0, 1)) => pvalue = One

C10_Witness ==
    /\ Done("t_pvalue") /\ sample_mean = mu /\ T = Surd(0, 0, 1) /\ pvalue = One
    /\ x0 = mu /\ Z = Zero

\* statistics of both signs a second evaluation may give
StatSet == {Surd(s, k * k, 1) : s \in {-1, 1}, k \in 0..LevelMax}

\* |a| <= |b| for finite a, b
AbsLe(a, b) ==
    LET sq(v) == IF v.k = "rat" THEN Rat(v.n * v.n, v.d * v.d) ELSE Rat(v.n, v.d)
    IN  ~RLt(sq(b), sq(a))

RLe(a, b) == ~RLt(b, a)

\* C11: for a fixed reference distribution the p-value is non-increasing in
\* |statistic|, in the Z-test (statistics of a positive sigma) and in the
\* t-test (statistics of either sign).
C11_PValueMonotone ==
    /\ (Done("z_pvalue") /\ SignOf(Z) >= 0) =>
          \A z2 \in {s \in StatSet : s.s >= 0} :
              /\ AbsLe(z2, Z) => RLe(pvalue, PValueZ(dist.F, z2))
              /\ AbsLe(Z, z2) => RLe(PValueZ(dist.F, z2), pvalue)
    /\ (Done("t_pvalue") /\ n >= 2 /\ IsNum(T)) =>
          \A t2 \in StatSet :
              /\ AbsLe(t2, T) => RLe(pvalue, PValueT(dist.F, t2, dist.df))
              /\ AbsLe(T, t2) => RLe(PValueT(dist.F, t2, dist.df), pvalue)

\* 1 - F(|a|)
OneSided(F, a) == RSub(One, Cdf(F, AbsVal(a)))

\* C12: the two-sided p-value of a completed evaluation on valid input is
\* exactly twice the one-sided p-value 1 - F(|statistic|).
C12_TwiceOneSided ==
    /\ (Done("z_pvalue") /\ SignOf(Z) >= 0) =>
          pvalue = RAdd(OneSided(dist.F, Z), OneSided(dist.F, Z))
    /\ (Done("t_pvalue") /\ n >= 2 /\ T.k # "nan") =>
          pvalue = RAdd(OneSided(dist.F, T), OneSided(dist.F, T))

\* C13 as stated: in the notebook's t-test scenario n = 5, the sample mean is
\* 1041.2 and |T| is about 2.33 (2.3^2 <= T^2 <= 2.4^2).
C13_ScenarioT ==
    (Done("t_stat") /\ samples = NotebookSamples /\ mu = Rat(1060, 1)) =>
        /\ n = 5 /\ sample_mean = Rat(10412, 10)
        /\ T.k = "surd" /\ T.s = -1
        /\ 529 * T.d <= 100 * T.n /\ 100 * T.n <= 576 * T.d

\* C13 amended: n = 5, the sample mean is 1041.2 and T is about -3.01
\* (3.0^2 <= T^2 <= 3.02^2; T^2 is 17672/1947, about 9.08).
C13_ScenarioT_Amended ==
    (Done("t_stat") /\ samples = NotebookSamples /\ mu = Rat(1060, 1)) =>
        /\ n = 5 /\ sample_mean = Rat(10412, 10)
        /\ T = Surd(-1, 17672, 1947)
        /\ 90000 * T.d <= 10000 * T.n /\ 10000 * T.n <= 91204 * T.d

C13_Witness ==
    /\ Done("t_stat") /\ samples = NotebookSamples /\ mu = Rat(1060, 1)
    /\ n = 5 /\ T.k = "surd"

----------------------------------------------------------------------------
(* The same cells with the library's actual distributions.  A CDF is given *)
(* by a table of upper-tail probabilities at a few points; between two     *)
(* points the tail is any value strictly between the tabulated ones.       *)

\* number of subdivisions of a bracket of the tail tables
TailSteps == 4

Pt(c, cden, tail, tden) == [c |-> Rat(c, cden), tail |-> Rat(tail, tden)]

\* 1 - Phi(c) at c = 1, 1.96, 3
NormTails == <<Pt(1, 1, 1587, 10000), Pt(196, 100, 25, 1000), Pt(3, 1, 135, 100000)>>

\* 1 - F_df(c) for Student's t with df = 1..4
TTails(df) ==
    CASE df = 1 -> <<Pt(1, 1, 25, 100), Pt(2, 1, 1476, 10000), Pt(1271, 100, 25, 1000)>>
      [] df = 2 -> <<Pt(1, 1, 2113, 10000), Pt(2, 1, 918, 10000), Pt(431, 100, 25, 1000)>>
      [] df = 3 -> <<Pt(1, 1, 1955, 10000), Pt(2, 1, 697, 10000), Pt(319, 100, 25, 1000)>>
      [] df = 4 -> <<Pt(1, 1, 187, 1000), Pt(2, 1, 58, 1000), Pt(278, 100, 25, 1000),
                     Pt(349, 100, 125, 10000)>>

\* |a| >= c for a finite a and a rational c >= 0
AbsGe(a, c) ==
    IF a.k = "rat" THEN Abs(a.n) * c.d >= c.n * a.d
    ELSE a.n * c.d * c.d >= c.n * c.n * a.d

\* the upper tail at |a|: the j-th subdivision of the bracket |a| falls in
TailAt(Q, j, a) ==
    LET i == Cardinality({q \in 1..Len(Q) : AbsGe(a, Q[q].c)})
        U == IF i = 0 THEN Rat(1, 2) ELSE Q[i].tail
        L == IF i = Len(Q) THEN Rat(0, 1) ELSE Q[i + 1].tail
        D == RSub(U, L)
    IN  RAdd(L, Rat(D.n * j, D.d * TailSteps))

\* the CDF read from a tail table
TailCdf(Q, j, a) ==
    CASE a.k = "nan" -> NaN
      [] a.k = "inf" -> IF a.s > 0 THEN Rat(1, 1) ELSE Rat(0, 1)
      [] SignOf(a) = 0 -> Rat(1, 2)
      [] SignOf(a) > 0 -> RSub(Rat(1, 1), TailAt(Q, j, a))
      [] OTHER -> TailAt(Q, j, a)

\* second code cell, with the standard normal CDF
NumZPvalueCell ==
    /\ last' = "z_pvalue"
    /\ IF Z = Undef
       THEN /\ err' = "NameError"
            /\ UNCHANGED <<pvalue, dist>>
       ELSE \E j \in 1..(TailSteps - 1) :
            /\ err' = "none"
            /\ dist' = [name |-> "norm", df |-> 0, F |-> j]
            /\ pvalue' = PValueZExpr(TailCdf(NormTails, j, Neg(Z)), TailCdf(NormTails, j, Z))
    /\ decision' = Undef
    /\ UNCHANGED <<imported, x0, mu, sigma, Z, w, samples, sample_mean, n, T, funVars, fftVars, algVars>>

\* fourth code cell, with the Student's t CDF of n - 1 degrees of freedom
NumTPvalueCell ==
    /\ last' = "t_pvalue"
    /\ IF T = Undef
       THEN /\ err' = "NameError"
            /\ UNCHANGED <<pvalue, dist>>
       ELSE \E j \in 1..(TailSteps - 1) :
            /\ err' = "none"
            /\ dist' = [name |-> "t", df |-> TDof(n), F |-> j]
            /\ pvalue' = IF TDof(n) <= 0 THEN NaN
                         ELSE PValueTExpr(TailCdf(TTails(TDof(n)), j, T),
                                          TailCdf(TTails(TDof(n)), j, Neg(T)))
    /\ decision' = Undef
    /\ UNCHANGED <<imported, x0, mu, sigma, Z, w, samples, sample_mean, n, T, funVars, fftVars, algVars>>

NumNext ==
    \/ ZStatCell
    \/ NumZPvalueCell
    \/ ZConclusion
    \/ TStatCell
    \/ NumTPvalueCell
    \/ TConclusion

SpecNumeric == Init /\ [][NumNext]_vars

C16_NoSharedState ==
    [][/\ last' \in {"t_stat", "t_pvalue"} =>
             /\ UNCHANGED <<x0, mu, sigma, Z, w>>
             /\ (IF dist = Undef THEN FALSE ELSE dist.name = "norm") => pvalue' = pvalue
       /\ last' \in {"z_stat", "z_pvalue"} =>
             /\ UNCHANGED <<samples, sample_mean, n, T>>
             /\ (T # Undef) => UNCHANGED <<mu, sigma, w>>
             /\ (IF dist = Undef THEN FALSE ELSE dist.name = "t") => pvalue' = pvalue]_vars

----------------------------------------------------------------------------
(* Numerical integration: calls of conditional_function and of the         *)
(* derivative of the damped mass-spring system.                            *)

\* conditional_function is called on the multiples of 1/2 in -CondMax..CondMax
CondMax == 6
\* the state, eps and omega of a derivative call are integers up to DerivMax
DerivMax == 1

CondInputs == {Rat(k, 2) : k \in (-2 * CondMax)..(2 * CondMax)} \cup {NaN}

\* float comparisons: every comparison with nan is false
FLt(a, b) == RLt(a, b)
FGt(a, b) == RLt(b, a)
FEq(a, b) == a.k # "nan" /\ b.k # "nan" /\ a = b
FGe(a, b) == a.k # "nan" /\ b.k # "nan" /\ ~RLt(a, b)

\* np.exp(x), kept symbolic
NpExp(a) == [k |-> "exp", arg |-> a]

Ret(branch, val) == [branch |-> branch, val |-> val]

\* the x >= 5 test placed before the x > 3 test
ConditionalFunction_GeFirst(x) ==
    IF FLt(x, Rat(0, 1)) THEN Ret("exp", NpExp(x))
    ELSE IF FLt(x, Rat(3, 1)) THEN Ret("square", Rat(x.n * x.n, x.d * x.d))
    ELSE IF FEq(x, Rat(3, 1)) THEN Ret("zero", Rat(0, 1))
    ELSE IF FGe(x, Rat(5, 1)) THEN Ret("expneg", NpExp(Neg(x)))
    ELSE IF FGt(x, Rat(3, 1)) THEN Ret("sqrt", NpSqrt(x))
    ELSE Ret("none", [k |-> "None"])

\* the x == 3 test left out
ConditionalFunction_NoEq(x) ==
    IF FLt(x, Rat(0, 1)) THEN Ret("exp", NpExp(x))
    ELSE IF FLt(x, Rat(3, 1)) THEN Ret("square", Rat(x.n * x.n, x.d * x.d))
    ELSE IF FGt(x, Rat(3, 1)) THEN Ret("sqrt", NpSqrt(x))
    ELSE IF FGe(x, Rat(5, 1)) THEN Ret("expneg", NpExp(Neg(x)))
    ELSE Ret("none", [k |-> "None"])

\* def conditional_function(x): the branch that returns and its value;
\* falling off the end returns None
ConditionalFunction(x) ==
    IF FLt(x, Rat(0, 1)) THEN Ret("exp", NpExp(x))
    ELSE IF FLt(x, Rat(3, 1)) THEN Ret("square", Rat(x.n * x.n, x.d * x.d))
    ELSE IF FEq(x, Rat(3, 1)) THEN Ret("zero", Rat(0, 1))
    ELSE IF FGt(x, Rat(3, 1)) THEN Ret("sqrt", NpSqrt(x))
    ELSE IF FGe(x, Rat(5, 1)) THEN Ret("expneg", NpExp(Neg(x)))
    ELSE Ret("none", [k |-> "None"])

\* the second component as the markdown writes it
Derivative_Markdown(yvec, time, eps, omega) ==
    <<yvec[2], (-eps) * omega * yvec[1] - omega * omega * yvec[2]>>

\* def derivative(yvec, time, eps, omega); yvec[0], yvec[1] are yvec[1], yvec[2] here
Derivative(yvec, time, eps, omega) ==
    <<yvec[2], (-eps) * omega * yvec[2] - omega * omega * yvec[1]>>

\* the kernel after the first code cell ran with the notebook's literals
\* (numpy is imported)
InitFunctions ==
    /\ imported = TRUE
    /\ x0 = Rat(1045, 1) /\ mu = Rat(1060, 1) /\ sigma = Rat(3, 1)
    /\ Z = ZScore(x0, mu, sigma) /\ w = RSub(mu, x0)
    /\ samples = Undef /\ sample_mean = Undef /\ n = Undef /\ T = Undef
    /\ pvalue = Undef /\ dist = Undef /\ decision = Undef
    /\ last = "z_stat" /\ err = "none"
    /\ cf = Undef /\ dy = Undef
    /\ sig = Undef /\ sig_fft = Undef /\ power = Undef /\ sample_freq = Undef
    /\ peak_freq = Undef /\ high_freq_fft = Undef /\ filtered_sig = Undef
    /\ algebra = Undef /\ out = Undef

\* a call conditional_function(x), as quad and np.vectorize make them
CallConditional ==
    \E x \in CondInputs :
        /\ cf' = [x |-> x, ret |-> ConditionalFunction(x)]
        /\ last' = "conditional_function" /\ err' = "none"
        /\ UNCHANGED <<statVars, dy, fftVars, algVars>>

\* a call derivative(yvec, time, eps, omega), as odeint makes them
CallDerivative ==
    \E y1 \in (-DerivMax)..DerivMax, y2 \in (-DerivMax)..DerivMax, time \in 0..1,
       eps \in 0..(DerivMax + 1), omega \in 0..(DerivMax + 1) :
        /\ dy' = [yvec |-> <<y1, y2>>, time |-> time, eps |-> eps, omega |-> omega,
                  ret |-> Derivative(<<y1, y2>>, time, eps, omega)]
        /\ last' = "derivative" /\ err' = "none"
        /\ UNCHANGED <<statVars, cf, fftVars, algVars>>

NextFunctions ==
    \/ CallConditional
    \/ CallDerivative

SpecFunctions == InitFunctions /\ [][NextFunctions]_vars

\* C17: the branch x >= 5 of conditional_function is never taken: every call
\* with x > 3, in particular with x >= 5, returns sqrt(x).
C17_GeFiveUnreachable ==
    cf # Undef =>
        /\ cf.ret.branch # "expneg"
        /\ FGt(cf.x, Rat(3, 1)) => cf.ret = Ret("sqrt", NpSqrt(cf.x))

C17_Witness ==
    /\ cf # Undef /\ FGe(cf.x, Rat(5, 1)) /\ cf.ret.branch = "sqrt"

\* C18: on ordered numeric inputs conditional_function always returns through
\* a branch: exp(x) for x < 0, x^2 for 0 <= x < 3, 0 for x = 3, sqrt(x) for x > 3.
C18_TotalPiecewise ==
    (cf # Undef /\ cf.x.k = "rat") =>
        /\ cf.ret.branch # "none"
        /\ FLt(cf.x, Rat(0, 1)) => cf.ret = Ret("exp", NpExp(cf.x))
        /\ (FGe(cf.x, Rat(0, 1)) /\ FLt(cf.x, Rat(3, 1)))
              => cf.ret = Ret("square", Rat(cf.x.n * cf.x.n, cf.x.d * cf.x.d))
        /\ FEq(cf.x, Rat(3, 1)) => cf.ret = Ret("zero", Rat(0, 1))
        /\ FGt(cf.x, Rat(3, 1)) => cf.ret = Ret("sqrt", NpSqrt(cf.x))

C18_Witness ==
    /\ cf # Undef /\ cf.x = Rat(3, 1) /\ cf.ret.branch = "zero"

----------------------------------------------------------------------------
(* Fast Fourier Transform cells.  A spectrum is a sequence of complex      *)
(* numbers <<re, im>>; index i of a sequence is index i-1 of the array.    *)

\* longest generated signal
MaxSig == 5

\* time_step = 0.05
TimeStep == Rat(1, 20)

SigValues == {0, 1}
SignalSet == UNION {{[i \in 1..N |-> v] : v \in SigValues} : N \in 1..MaxSig}

\* components a transform may have: real ones, and conjugate pairs
RealComps == {<<0, 0>>, <<-3, 0>>}
Comps == RealComps \cup {<<0, 2>>, <<0, -2>>}
Conj(c) == <<c[1], -c[2]>>

\* fftpack.fft of a real signal of N points: N components, the first real,
\* component N-k the conjugate of component k
Spectra ==
    [N \in 1..MaxSig |->
        {X \in [1..N -> Comps] :
            /\ X[1] \in RealComps
            /\ \A p \in 1..(N - 1) : X[N - p + 1] = Conj(X[p + 1])}]

\* the array with elements f[1], ..., f[N]
RECURSIVE Array(_, _)
Array(f, N) == IF N = 0 THEN <<>> ELSE Append(Array(f, N - 1), f[N])

\* np.abs of a complex number
NpAbs(c) == Surd(1, c[1] * c[1] + c[2] * c[2], 1)

\* fftpack.fftfreq(N, d): k/(N*d) for k = 0, 1, ..., (N-1)/2, -(N/2), ..., -1
FftFreq(N, d) ==
    Array([i \in 1..N |->
              LET k == IF i - 1 <= (N - 1) \div 2 THEN i - 1 ELSE i - 1 - N
              IN  Rat(k * d.d, N * d.n)], N)

\* np.where(sample_freq > 0): the indices of the positive frequencies, ascending
PosMask(freq) == {i \in 1..Len(freq) : RLt(Rat(0, 1), freq[i])}

\* power.argmax() over the whole spectrum, without the positive mask
PeakIndex_Unmasked(freq, pow) ==
    LET all == 1..Len(freq)
        best == {i \in all : \A j \in all : pow[j].n <= pow[i].n}
    IN  CHOOSE i \in best : \A j \in best : i <= j

\* freqs[powes.argmax()]: the first positive frequency of maximal power
PeakIndex(freq, pow) ==
    LET pos == PosMask(freq)
        best == {i \in pos : \A j \in pos : pow[j].n <= pow[i].n}
    IN  CHOOSE i \in best : \A j \in best : i <= j

\* the mask sample_freq > peak_freq, without the absolute value
HighMask_Signed(freq, peak) == {i \in 1..Len(freq) : RLt(peak, freq[i])}

\* the mask np.abs(sample_freq) > peak_freq
HighMask(freq, peak) == {i \in 1..Len(freq) : RLt(peak, RAbs(freq[i]))}

\* high_freq_fft = sig_fft.copy(); high_freq_fft[mask] = 0
LowPass(X, mask) ==
    Array([i \in 1..Len(X) |-> IF i \in mask THEN <<0, 0>> ELSE X[i]], Len(X))

\* high_freq_fft = sig_fft; high_freq_fft[mask] = 0: without the copy both
\* names are bound to the one array that is zeroed
FilterStep_Aliased(X, mask) ==
    [sig_fft |-> LowPass(X, mask), high_freq_fft |-> LowPass(X, mask)]

\* the arrays bound to sig_fft and high_freq_fft after
\* high_freq_fft = sig_fft.copy(); high_freq_fft[mask] = 0
FilterStep(X, mask) ==
    [sig_fft |-> X, high_freq_fft |-> LowPass(X, mask)]

\* fftpack.ifft, kept symbolic
Ifft(X) == [k |-> "ifft", of |-> X]

\* a numpy array held by a name of the kernel
Arr(s) == [k |-> "arr", v |-> s]

\* cell generating the signal: sig
SignalCell ==
    /\ last' = "signal"
    /\ IF ~imported
       THEN err' = "NameError" /\ UNCHANGED sig
       ELSE \E s \in SignalSet :
            sig' = Arr(Array(s, Cardinality(DOMAIN s))) /\ err' = "none"
    /\ UNCHANGED <<statVars, funVars, algVars, sig_fft, power, sample_freq, peak_freq,
                   high_freq_fft, filtered_sig>>

\* cell computing the power spectrum: sig_fft, power, sample_freq, peak_freq
SpectrumCell ==
    /\ last' = "spectrum"
    /\ IF sig = Undef
       THEN /\ err' = "NameError"
            /\ UNCHANGED <<sig_fft, power, sample_freq, peak_freq>>
       ELSE LET N == Len(sig.v) IN
            \E X \in Spectra[N] :
            /\ sig_fft' = Arr(Array(X, N))
            /\ power' = Arr(Array([i \in 1..N |-> NpAbs(X[i])], N))
            /\ sample_freq' = Arr(FftFreq(N, TimeStep))
            /\ IF PosMask(sample_freq'.v) = {}
               THEN err' = "ValueError" /\ UNCHANGED peak_freq
               ELSE /\ peak_freq' = sample_freq'.v[PeakIndex(sample_freq'.v, power'.v)]
                    /\ err' = "none"
    /\ UNCHANGED <<statVars, funVars, algVars, sig, high_freq_fft, filtered_sig>>

\* cell applying the low-pass filter: high_freq_fft, filtered_sig
FilterCell ==
    /\ last' = "filter"
    /\ IF sig_fft = Undef
       THEN err' = "NameError" /\ UNCHANGED <<sig_fft, high_freq_fft, filtered_sig>>
       ELSE IF peak_freq = Undef
       THEN /\ high_freq_fft' = sig_fft
            /\ err' = "NameError" /\ UNCHANGED <<sig_fft, filtered_sig>>
       ELSE LET r == FilterStep(sig_fft.v, HighMask(sample_freq.v, peak_freq)) IN
            /\ high_freq_fft' = Arr(r.high_freq_fft)
            /\ sig_fft' = Arr(r.sig_fft)
            /\ filtered_sig' = Ifft(high_freq_fft')
            /\ err' = "none"
    /\ UNCHANGED <<statVars, funVars, algVars, sig, power, sample_freq, peak_freq>>

NextFft ==
    \/ SignalCell
    \/ SpectrumCell
    \/ FilterCell

SpecFft == InitFunctions /\ [][NextFft]_vars

\* C20: after the filter step every component whose |sample frequency| is
\* greater than peak_freq is zero and every other component (zero frequency
\* and the negative mirror of the peak included) is that of sig_fft.
C20_LowPass ==
    Done("filter") =>
        /\ Len(high_freq_fft.v) = Len(sig_fft.v)
        /\ \A i \in 1..Len(sig_fft.v) :
              IF RLt(peak_freq, RAbs(sample_freq.v[i]))
              THEN high_freq_fft.v[i] = <<0, 0>>
              ELSE high_freq_fft.v[i] = sig_fft.v[i]

C20_Witness ==
    /\ Done("filter")
    /\ \E i \in 1..Len(sig_fft.v) :
          /\ RLt(peak_freq, RAbs(sample_freq.v[i])) /\ RLt(sample_freq.v[i], Rat(0, 1))
          /\ sig_fft.v[i] # <<0, 0>> /\ high_freq_fft.v[i] = <<0, 0>>
    /\ \E i \in 1..Len(sig_fft.v) :
          /\ sample_freq.v[i] = Neg(peak_freq) /\ sig_fft.v[i] # <<0, 0>>
          /\ high_freq_fft.v[i] = sig_fft.v[i]

\* C21: after the power-spectrum step peak_freq is a strictly positive sample
\* frequency whose power is the largest among the strictly positive sample
\* frequencies; zero and negative frequencies are never selected.
C21_PeakPositiveMax ==
    Done("spectrum") =>
        /\ RLt(Rat(0, 1), peak_freq)
        /\ \E i \in 1..Len(sample_freq.v) :
              /\ sample_freq.v[i] = peak_freq
              /\ \A j \in 1..Len(sample_freq.v) :
                    RLt(Rat(0, 1), sample_freq.v[j]) => power.v[j].n <= power.v[i].n

\* the zero frequency has more power than the peak, and the peak is not the
\* first of two positive frequencies of different power
C21_Witness ==
    /\ Done("spectrum")
    /\ \E i, j, z \in 1..Len(sample_freq.v) :
          /\ sample_freq.v[i] = peak_freq
          /\ RLt(Rat(0, 1), sample_freq.v[j]) /\ RLt(sample_freq.v[j], peak_freq)
          /\ power.v[j].n < power.v[i].n
          /\ sample_freq.v[z] = Rat(0, 1) /\ power.v[i].n < power.v[z].n

\* C22: the filter step leaves sig_fft and sig as they were (only the copy
\* high_freq_fft is zeroed), so a filter step run again right after a completed
\* one works on the same sig_fft and produces the same high_freq_fft.
C22_FilterFrame ==
    [][last' = "filter" =>
          /\ sig' = sig
          /\ sig_fft' = sig_fft
          /\ (Done("filter") /\ err' = "none") => high_freq_fft' = high_freq_fft]_vars

\* a completed filter step that zeroed a non-zero component of the spectrum
C22_Witness ==
    /\ Done("filter")
    /\ sig # Undef
    /\ \E i \in 1..Len(sig_fft.v) :
          sig_fft.v[i] # <<0, 0>> /\ high_freq_fft.v[i] = <<0, 0>>

----------------------------------------------------------------------------
(* The linear-algebra notebook.  Its kernel is a second namespace: the     *)
(* record algebra has one field per name the modelled cells assign.        *)
(* Vectors are tuples of rationals and matrices tuples of rows; floating   *)
(* point is modelled by exact rationals, plus nan for 0/0.                 *)

\* most observations (columns) of a generated data set
MaxCols == 3

\* numbers of sequences (rows) of a generated data set
RowSet == {1, 2}

\* the values of the generated data
DataValues == {0, 1}

RMul(a, c) ==
    IF a.k = "nan" \/ c.k = "nan" THEN NaN ELSE Rat(a.n * c.n, a.d * c.d)

\* float division: 0/0 is nan, x/0 is +-inf
RDiv(a, c) ==
    IF a.k = "nan" \/ c.k = "nan" THEN NaN
    ELSE IF c.n = 0 THEN (IF a.n = 0 THEN NaN ELSE Inf(Sign(a.n)))
    ELSE Rat(a.n * c.d, a.d * c.n)

\* the sum of the tuple of rationals s
RECURSIVE RSum(_)
RSum(s) == IF s = <<>> THEN Rat(0, 1) ELSE RAdd(s[1], RSum(Tail(s)))

\* shape of a matrix
NRows(m) == Len(m)
NCols(m) == Len(m[1])

\* the matrix with entries f[i][j]
Matrix(f, nr, nc) == Array([i \in 1..nr |-> Array(f[i], nc)], nr)

\* m.T
Transpose(m) ==
    Matrix([i \in 1..NCols(m) |-> [j \in 1..NRows(m) |-> m[j][i]]], NCols(m), NRows(m))

\* a.dot(c) of two matrices
MatDot(a, c) ==
    Matrix([i \in 1..NRows(a) |-> [j \in 1..NCols(c) |->
               RSum(Array([t \in 1..NCols(a) |-> RMul(a[i][t], c[t][j])], NCols(a)))]],
           NRows(a), NCols(c))

\* a / s for a matrix a and a number s
MatDivScalar(a, s) ==
    Matrix([i \in 1..NRows(a) |-> [j \in 1..NCols(a) |-> RDiv(a[i][j], s)]],
           NRows(a), NCols(a))

\* column j of the data m read as a number in base 2, first row least
RECURSIVE ColKey(_, _, _)
ColKey(m, j, i) == IF i = 0 THEN 0 ELSE m[i][j] + 2 * ColKey(m, j, i - 1)

\* np.random.random((nr, nc)): the data sets of nr sequences of nc values,
\* the observations listed in non-decreasing order (the covariance does not
\* depend on the order of the observations)
DataSet(nr, nc) ==
    {Matrix([i \in 1..nr |-> [j \in 1..nc |-> Rat(m[i][j], 1)]], nr, nc) :
        m \in {d \in [1..nr -> [1..nc -> DataValues]] :
                  \A j \in 1..(nc - 1) : ColKey(d, j, nr) <= ColKey(d, j + 1, nr)}}

\* the data sets of every shape the data cell may generate
DataSets == [nr \in RowSet |-> [nc \in 1..MaxCols |-> DataSet(nr, nc)]]

\* the namespace of a fresh kernel
NoNames ==
    [np |-> FALSE, n |-> Undef, p |-> Undef, v |-> Undef, v_mean |-> Undef,
     w |-> Undef, cov |-> Undef, np_cov |-> Undef, A |-> Undef, b |-> Undef,
     x |-> Undef, mu |-> Undef, sigma |-> Undef, X |-> Undef, l |-> Undef,
     V |-> Undef, Lambda |-> Undef]

\* v.mean(axis=1)[:, np.newaxis]: the column of the means of the rows
RowMeans(m) ==
    Matrix([i \in 1..NRows(m) |-> [j \in 1..1 |->
               RDiv(RSum(m[i]), Rat(NCols(m), 1))]], NRows(m), 1)

\* v - v_mean, the column v_mean broadcast along the rows
Center(m, means) ==
    Matrix([i \in 1..NRows(m) |-> [j \in 1..NCols(m) |->
               RSub(m[i][j], means[i][1])]], NRows(m), NCols(m))

\* w.dot(w.T) / p: the divisor of the population covariance
CovOuter_Biased(c, nobs) == MatDivScalar(MatDot(c, Transpose(c)), Rat(nobs, 1))

\* cov = w.dot(w.T) / (p - 1)
CovOuter(c, nobs) == MatDivScalar(MatDot(c, Transpose(c)), Rat(nobs - 1, 1))

\* np.cov(m): rows are variables, columns observations, ddof = 1; the
\* result is squeezed, a single row gives a number
NpCov(m) ==
    LET c == Center(m, RowMeans(m))
        full == MatDivScalar(MatDot(c, Transpose(c)), Rat(NCols(m) - 1, 1))
    IN  IF NRows(m) = 1 THEN full[1][1] ELSE Arr(full)

\* np.allclose(a, c) of a matrix a and a matrix or number c: c is broadcast,
\* and nan is close to nothing
NpAllclose(a, c) ==
    \A i \in 1..NRows(a) : \A j \in 1..NCols(a) :
        LET e == IF c.k = "arr" THEN c.v[i][j] ELSE c
        IN  a[i][j].k = "rat" /\ e.k = "rat" /\ a[i][j] = e

\* a printed value
Out(val) == [k |-> "out", v |-> val]

\* the row of the largest |m[r][c]| among the rows c..nr, the first if several
PivotRow(m, c, nr) ==
    LET best == {r \in c..nr : \A j \in c..nr : ~RLt(RAbs(m[r][c]), RAbs(m[j][c]))}
    IN  CHOOSE r \in best : \A j \in best : r <= j

\* Gaussian elimination with partial pivoting of the augmented system m,
\* from column c on; Undef if a pivot is zero (the matrix is singular)
RECURSIVE Eliminate(_, _, _)
Eliminate(m, c, nr) ==
    IF c > nr THEN [k |-> "lu", v |-> m]
    ELSE LET r == PivotRow(m, c, nr)
             s == [i \in 1..nr |-> IF i = c THEN m[r] ELSE IF i = r THEN m[c] ELSE m[i]]
         IN  IF s[c][c].n = 0 THEN Undef
             ELSE Eliminate(
                    [i \in 1..nr |->
                        IF i <= c THEN s[i]
                        ELSE [j \in 1..(nr + 1) |->
                                 RSub(s[i][j], RMul(RDiv(s[i][c], s[c][c]), s[c][j]))]],
                    c + 1, nr)

\* back substitution in the triangular system m: the unknowns i..nr
RECURSIVE BackSubst(_, _, _)
BackSubst(m, i, nr) ==
    IF i > nr THEN [j \in {} |-> Undef]
    ELSE LET rest == BackSubst(m, i + 1, nr)
             acc == RSum(Array([t \in 1..(nr - i) |-> RMul(m[i][i + t], rest[i + t])],
                               nr - i))
         IN  [j \in i..nr |->
                 IF j = i THEN RDiv(RSub(m[i][nr + 1], acc), m[i][i]) ELSE rest[j]]

\* the solver applied to the transposed matrix
LaSolve_Transposed(a, rhs) ==
    LET nr == NRows(a)
        t == Eliminate([i \in 1..nr |-> [j \in 1..(nr + 1) |->
                           IF j <= nr THEN a[j][i] ELSE rhs[i]]], 1, nr)
    IN  IF t = Undef THEN Undef ELSE Arr(Array(BackSubst(t.v, 1, nr), nr))

\* la.solve(a, rhs): LU factorisation with partial pivoting, then the
\* triangular solves; Undef stands for LinAlgError
LaSolve(a, rhs) ==
    LET nr == NRows(a)
        t == Eliminate([i \in 1..nr |-> [j \in 1..(nr + 1) |->
                           IF j <= nr THEN a[i][j] ELSE rhs[i]]], 1, nr)
    IN  IF t = Undef THEN Undef ELSE Arr(Array(BackSubst(t.v, 1, nr), nr))

\* np.dot(a, vec) of a matrix and a vector
MatVec(a, vec) ==
    Array([i \in 1..NRows(a) |->
              RSum(Array([t \in 1..NCols(a) |-> RMul(a[i][t], vec[t])], NCols(a)))],
          NRows(a))

\* np.array of a tuple of integers, and of a tuple of such rows
IntVec(s) == Array([i \in 1..Len(s) |-> Rat(s[i], 1)], Len(s))
IntMat(m) == Array([i \in 1..Len(m) |-> IntVec(m[i])], Len(m))

InitAlgebra ==
    /\ imported = FALSE
    /\ x0 = Undef /\ mu = Undef /\ sigma = Undef /\ Z = Undef /\ w = Undef
    /\ samples = Undef /\ sample_mean = Undef /\ n = Undef /\ T = Undef
    /\ pvalue = Undef /\ dist = Undef /\ decision = Undef
    /\ last = "none" /\ err = "none"
    /\ cf = Undef /\ dy = Undef
    /\ sig = Undef /\ sig_fft = Undef /\ power = Undef /\ sample_freq = Undef
    /\ peak_freq = Undef /\ high_freq_fft = Undef /\ filtered_sig = Undef
    /\ algebra = NoNames /\ out = Undef

\* import numpy as np; from scipy import linalg as la; ...
AlgImportCell ==
    /\ last' = "import" /\ err' = "none"
    /\ algebra' = [algebra EXCEPT !.np = TRUE]
    /\ out' = Undef
    /\ UNCHANGED <<statVars, funVars, fftVars>>

\* n, p = 4, 10; v = np.random.random((n, p)); print(v)
CovDataCell ==
    /\ last' = "cov_data"
    /\ IF ~algebra.np
       THEN /\ err' = "NameError" /\ out' = Undef
            /\ \E nr \in RowSet, nc \in 1..MaxCols :
                  algebra' = [algebra EXCEPT !.n = nr, !.p = nc]
       ELSE \E nr \in RowSet, nc \in 1..MaxCols : \E d \in DataSets[nr][nc] :
            /\ algebra' = [algebra EXCEPT !.n = nr, !.p = nc, !.v = Arr(d)]
            /\ out' = Out(Arr(d))
            /\ err' = "none"
    /\ UNCHANGED <<statVars, funVars, fftVars>>

\* v_mean, w, cov, np_cov and the answer to 'Are they the same?'
CovCell ==
    /\ last' = "cov"
    /\ IF algebra.v = Undef
       THEN err' = "NameError" /\ out' = Undef /\ UNCHANGED algebra
       ELSE LET means == RowMeans(algebra.v.v)
                c == Center(algebra.v.v, means)
                outer == CovOuter(c, algebra.p)
                ref == NpCov(algebra.v.v)
            IN  /\ algebra' = [algebra EXCEPT !.v_mean = Arr(means), !.w = Arr(c),
                                              !.cov = Arr(outer),
                                              !.np_cov = ref]
                /\ out' = Out(NpAllclose(outer, algebra'.np_cov))
                /\ err' = "none"
    /\ UNCHANGED <<statVars, funVars, fftVars>>

\* A, b, x = la.solve(A, b) and the answer to 'Is Ax == b?'
SolveCell ==
    /\ last' = "solve"
    /\ IF ~algebra.np
       THEN err' = "NameError" /\ out' = Undef /\ UNCHANGED algebra
       ELSE LET mat == IntMat(<<<<3, 2, 0>>, <<1, -1, 0>>, <<0, 5, 1>>>>)
                rhs == IntVec(<<2, 4, -1>>)
                sol == LaSolve(mat, rhs)
            IN  IF sol = Undef
                THEN /\ algebra' = [algebra EXCEPT !.A = Arr(mat), !.b = Arr(rhs)]
                     /\ err' = "LinAlgError" /\ out' = Undef
                ELSE /\ algebra' = [algebra EXCEPT !.A = Arr(mat), !.b = Arr(rhs),
                                                   !.x = sol]
                     /\ out' = Out(Array([i \in 1..Len(rhs) |->
                                            MatVec(mat, sol.v)[i] = rhs[i]], Len(rhs)))
                     /\ err' = "none"
    /\ UNCHANGED <<statVars, funVars, fftVars>>

NextCov ==
    \/ AlgImportCell
    \/ CovDataCell
    \/ CovCell
    \/ SolveCell

SpecCov == InitAlgebra /\ [][NextCov]_vars

\* the covariance of the claim: entry (i, j) is the sum over the observations
\* of the products of the deviations of rows i and j, divided by p - 1
SampleCovariance(m, i, j) ==
    LET nobs == NCols(m)
        mi == RDiv(RSum(m[i]), Rat(nobs, 1))
        mj == RDiv(RSum(m[j]), Rat(nobs, 1))
    IN  RDiv(RSum(Array([t \in 1..nobs |->
                            RMul(RSub(m[i][t], mi), RSub(m[j][t], mj))], nobs)),
             Rat(nobs - 1, 1))

\* C24: for a data set of n rows and p >= 2 observations the covariance cell
\* leaves in cov the n-by-n sample covariance matrix of the rows, and its
\* comparison with np.cov answers True.
C24_CovarianceOuter ==
    (Done("cov") /\ algebra.p >= 2) =>
        /\ NRows(algebra.cov.v) = algebra.n /\ NCols(algebra.cov.v) = algebra.n
        /\ \A i, j \in 1..algebra.n :
              algebra.cov.v[i][j] = SampleCovariance(algebra.v.v, i, j)
        /\ out = Out(TRUE)

\* two sequences of three observations with a non-zero covariance
C24_Witness ==
    /\ Done("cov") /\ algebra.p >= 3 /\ algebra.n = 2
    /\ algebra.cov.v[1][2].n # 0
    /\ algebra.cov.v[1][1] # algebra.cov.v[1][2]

\* C23: the solve cell leaves in x the vector <<2, -2, 9>>, and A x equals b
\* component by component.
C23_SolveExact ==
    Done("solve") =>
        /\ algebra.x.v = IntVec(<<2, -2, 9>>)
        /\ MatVec(algebra.A.v, algebra.x.v) = algebra.b.v
        /\ out = Out(<<TRUE, TRUE, TRUE>>)

C23_Witness ==
    /\ Done("solve")
    /\ algebra.A.v = IntMat(<<<<3, 2, 0>>, <<1, -1, 0>>, <<0, 5, 1>>>>)
    /\ algebra.b.v = IntVec(<<2, 4, -1>>)
    /\ algebra.x # Undef

----------------------------------------------------------------------------
(* Principal component analysis by eigendecomposition *)

\* the integer square root of k if k is a perfect square, -1 otherwise
ISqrt(k) ==
    IF \E r \in 0..k : r * r = k THEN CHOOSE r \in 0..k : r * r = k ELSE -1

\* (a - c)^2 + 4 b^2 for the symmetric matrix <<<<a, b>>, <<b, c>>>>: the
\* square of the difference of its two eigenvalues
Discriminant(m) ==
    LET diff == RSub(m[1][1], m[2][2])
    IN  RAdd(RMul(diff, diff), RMul(Rat(4, 1), RMul(m[1][2], m[1][2])))

\* the eigenvalues of m are rational
RationalEig(m) ==
    LET disc == Discriminant(m) IN ISqrt(disc.n) >= 0 /\ ISqrt(disc.d) >= 0

\* the two eigenvalues of a symmetric 2-by-2 matrix, larger first
EigPair(m) ==
    LET disc == Discriminant(m)
        root == Rat(ISqrt(disc.n), ISqrt(disc.d))
        tr == RAdd(m[1][1], m[2][2])
    IN  <<RDiv(RAdd(tr, root), Rat(2, 1)), RDiv(RSub(tr, root), Rat(2, 1))>>

\* la.eig(m) followed by np.real_if_close: the eigenvalues, in either order
\* (the library does not sort them)
LaEig(m) == {EigPair(m), <<EigPair(m)[2], EigPair(m)[1]>>}

\* np.random.multivariate_normal(mu, sigma, n).T: two sequences of nc points;
\* those whose covariance has rational eigenvalues, and the single points
PcaData ==
    [nc \in 1..MaxCols |->
        {d \in DataSet(2, nc) : nc = 1 \/ RationalEig(NpCov(d).v)}]

\* np.diag(vec): the diagonal matrix of a vector
NpDiag(vec) ==
    Matrix([i \in 1..Len(vec) |-> [j \in 1..Len(vec) |->
               IF i = j THEN vec[i] ELSE Rat(0, 1)]], Len(vec), Len(vec))

\* m.trace()
Trace(m) == RSum(Array([i \in 1..NRows(m) |-> m[i][i]], NRows(m)))

\* '%.2f' % r for r >= 0: the number of hundredths printed, the nearest one,
\* a tie (only dyadic values reach one here) going to the even neighbour
Format2f(r) ==
    IF r.k # "rat" THEN r
    ELSE LET q == (100 * r.n) \div r.d
             rem == (100 * r.n) % r.d
         IN  [k |-> "hundredths",
              v |-> IF 2 * rem < r.d THEN q
                    ELSE IF 2 * rem > r.d THEN q + 1
                    ELSE IF q % 2 = 0 THEN q ELSE q + 1]

\* mu, sigma, n, X: the data set of the PCA section
PcaDataCell ==
    /\ last' = "pca_data"
    /\ out' = Undef
    /\ \E nc \in 1..MaxCols :
          LET named == [algebra EXCEPT !.mu = Arr(IntVec(<<0, 0>>)),
                           !.sigma = Arr(<<<<Rat(3, 5), Rat(1, 5)>>,
                                           <<Rat(1, 5), Rat(1, 5)>>>>),
                           !.n = nc]
          IN  IF ~algebra.np
              THEN err' = "NameError" /\ algebra' = named
              ELSE \E d \in PcaData[nc] :
                   err' = "none" /\ algebra' = [named EXCEPT !.X = Arr(d)]
    /\ UNCHANGED <<statVars, funVars, fftVars>>

\* cov = np.cov(X); l, V = la.eig(cov); l = np.real_if_close(l)
EigCell ==
    /\ last' = "eig"
    /\ out' = Undef
    /\ IF algebra.X = Undef
       THEN err' = "NameError" /\ UNCHANGED algebra
       ELSE LET c == NpCov(algebra.X.v) IN
            IF c.v[1][1].k = "nan"
            THEN err' = "ValueError" /\ algebra' = [algebra EXCEPT !.cov = c]
            ELSE \E vals \in LaEig(c.v) :
                 /\ algebra' = [algebra EXCEPT !.cov = c, !.l = Arr(vals),
                                               !.V = [k |-> "eigvec", of |-> vals]]
                 /\ err' = "none"
    /\ UNCHANGED <<statVars, funVars, fftVars>>

\* the fraction printed with a percent sign: Lambda[0,0] / Lambda.trace()
Retained(lam) == RDiv(lam[1][1], Trace(lam))

\* Lambda = np.diag(l) and the retained variability printed as '%.2f%%'
RetainCell ==
    /\ last' = "retain"
    /\ IF algebra.l = Undef
       THEN err' = "NameError" /\ out' = Undef /\ UNCHANGED algebra
       ELSE /\ algebra' = [algebra EXCEPT !.Lambda = Arr(NpDiag(algebra.l.v))]
            /\ out' = Out(Format2f(Retained(algebra'.Lambda.v)))
            /\ err' = "none"
    /\ UNCHANGED <<statVars, funVars, fftVars>>

NextPca ==
    \/ AlgImportCell
    \/ PcaDataCell
    \/ EigCell
    \/ RetainCell

SpecPca == InitAlgebra /\ [][NextPca]_vars

\* C25: the number the retained-variability cell prints before the percent
\* sign is 100 * lambda_0 / (sum of the eigenvalues), to two decimals.
C25_RetainedPercentage ==
    Done("retain") =>
        out = Out(Format2f(RMul(Rat(100, 1),
                                RDiv(algebra.l.v[1], RSum(algebra.l.v)))))

====
